---- MODULE Spec2Model ----
(***************************************************************************)
(* State-machine model of the tools browser_get_html_source,               *)
(* browser_network_requests and browser_get_request_info                   *)
(* (src/src/tools/htmlsource.ts).  Strings are                             *)
(* sequences of one-character strings, so that the regular-expression      *)
(* stages, String.slice, endsWith and the curl command act on characters   *)
(* as they do in the source.  The page is a DOM tree owned by the browser; *)
(* the handler reads and mutates it through the driver's primitives        *)
(* content(), $$eval() and $eval().  An invocation of                      *)
(* browser_get_request_info is cut at its suspension points (the reload    *)
(* and the cookie read), between which the tab may emit requests and       *)
(* another invocation may run.  The timestamp of its response is left out. *)
(*                                                                         *)
(* Specifications:                                                         *)
(*   Spec          calls with every filter option on pages of mixed content*)
(*   SpecPreset    every preset against a wide choice of caller options    *)
(*   SpecPaging    calls whose offset and maxLength vary, negatives too    *)
(*   SpecClient    a client that pages through the filtered text           *)
(*   SpecText      the compression stage on every text over an alphabet    *)
(*   SpecComments  pages whose script text holds comment delimiters        *)
(*   SpecRace      two request-info invocations interleaved on one tab     *)
(*   SpecCurl      request-info over hosts, cookie jars and requests       *)
(*   SpecNetwork   the tab records requests and responses, and lists them  *)
(*   SpecPretty    the pretty-print stage on every text over an alphabet   *)
(***************************************************************************)
EXTENDS Integers, Sequences, FiniteSets, TLC

\* ------------------------------------------------------------------------
\* Bounds of the model
\* ------------------------------------------------------------------------
\* largest number of child nodes of <body> in an initial page
MaxBody == 2
\* largest offset / maxLength a caller passes in the pagination runs
MaxOffset == 10
\* most negative offset / maxLength a caller passes is -MaxNeg
MaxNeg == 2
\* largest window size of the paging client
MaxChunk == 3
\* longest input text of the text-stage runs
MaxText == 5
\* most requests the tab emits, besides those of reloads, in the request runs
MaxRequests == 2
\* most requests the tab records in the network runs
MaxRecorded == 3

\* ------------------------------------------------------------------------
\* Characters and strings
\* ------------------------------------------------------------------------
Min(a, b) == IF a < b THEN a ELSE b

Max(a, b) == IF a > b THEN a ELSE b

\* the characters the regular expression class \s matches (those the model uses)
IsWs(c) == c \in {" ", "\n", "\t", "\r"}

\* line terminators: what ^ and $ anchor on under the m flag
IsLineTerm(c) == c \in {"\n", "\r"}

\* s has the characters of t at positions i .. i + Len(t) - 1
MatchAt(s, i, t) ==
  /\ i >= 1
  /\ i + Len(t) - 1 <= Len(s)
  /\ \A k \in 1..Len(t) : s[i + k - 1] = t[k]

\* String.prototype.includes
Includes(s, t) == \E i \in 1..(Len(s) + 1) : MatchAt(s, i, t)

\* the least element of a non-empty set of positions
First(S) == CHOOSE x \in S : \A y \in S : x <= y

\* the greatest element of a non-empty set of positions
Last(S) == CHOOSE x \in S : \A y \in S : x >= y

\* first position >= i of s that holds no whitespace (Len(s) + 1 if none)
WsRunEnd(s, i) == First({k \in i..(Len(s) + 1) : k = Len(s) + 1 \/ ~IsWs(s[k])})

\* String.prototype.slice(start, end)
JsSlice(s, start, end) ==
  LET len == Len(s)
      from == IF start < 0 THEN Max(len + start, 0) ELSE Min(start, len)
      to == IF end < 0 THEN Max(len + end, 0) ELSE Min(end, len)
  IN IF from >= to THEN <<>> ELSE SubSeq(s, from + 1, to)

\* String.prototype.trim
Trim(s) ==
  LET keep == {i \in 1..Len(s) : ~IsWs(s[i])}
  IN IF keep = {} THEN <<>>
     ELSE SubSeq(s, First(keep), Last(keep))

\* ------------------------------------------------------------------------
\* The string stages of the handler
\* ------------------------------------------------------------------------
CommentOpen == <<"<", "!", "-", "-">>

CommentClose == <<"-", "-", ">">>

\* the comment pattern matches at position k of s: an opening there and a
\* closing somewhere after it
CommentAt(s, k) ==
  /\ MatchAt(s, k, CommentOpen)
  /\ \E j \in (k + 4)..Len(s) : MatchAt(s, j, CommentClose)

\* s.replace(/<!--[\s\S]*?-->/g, '') from position i on: the leftmost match,
\* ended by the nearest closing, is dropped and the scan resumes after it
RECURSIVE StripFrom(_, _)
StripFrom(s, i) ==
  LET starts == {k \in i..Len(s) : CommentAt(s, k)}
  IN IF starts = {} THEN SubSeq(s, i, Len(s))
     ELSE LET k == First(starts)
              j == First({c \in (k + 4)..Len(s) : MatchAt(s, c, CommentClose)})
          IN SubSeq(s, i, k - 1) \o StripFrom(s, j + 3)

StripComments(s) == StripFrom(s, 1)

\* />\s+</ matches at position k of s
TagGapAt(s, k) ==
  /\ s[k] = ">"
  /\ WsRunEnd(s, k + 1) > k + 1
  /\ WsRunEnd(s, k + 1) <= Len(s)
  /\ s[WsRunEnd(s, k + 1)] = "<"

\* s.replace(/>\s+</g, '><') from position i on: the text up to the '>' of
\* the leftmost match is kept, its whitespace dropped, and the scan resumes
\* at the '<' that ends the match (no match starts there)
RECURSIVE TagGapFrom(_, _)
TagGapFrom(s, i) ==
  LET starts == {k \in i..Len(s) : TagGapAt(s, k)}
  IN IF starts = {} THEN SubSeq(s, i, Len(s))
     ELSE LET k == First(starts)
          IN SubSeq(s, i, k) \o TagGapFrom(s, WsRunEnd(s, k + 1))

\* s.replace(/>\s</g, '><'): a gap of exactly one whitespace character
RECURSIVE SingleGapFrom(_, _)
SingleGapFrom(s, i) ==
  LET starts == {k \in i..(Len(s) - 2) :
                   s[k] = ">" /\ IsWs(s[k + 1]) /\ s[k + 2] = "<"}
  IN IF starts = {} THEN SubSeq(s, i, Len(s))
     ELSE LET k == First(starts)
          IN SubSeq(s, i, k) \o SingleGapFrom(s, k + 2)

RemoveTagGaps_SingleWs(s) == SingleGapFrom(s, 1)

RemoveTagGaps(s) == TagGapFrom(s, 1)

\* s.replace(/\s+/g, ' ') from position i on
RECURSIVE CollapseFrom(_, _)
CollapseFrom(s, i) ==
  LET starts == {k \in i..Len(s) : IsWs(s[k])}
  IN IF starts = {} THEN SubSeq(s, i, Len(s))
     ELSE LET k == First(starts)
          IN SubSeq(s, i, k - 1) \o <<" ">> \o CollapseFrom(s, WsRunEnd(s, k))

\* s.replace(/ +/g, ' '): only runs of spaces are collapsed
RECURSIVE SpacesFrom(_, _)
SpacesFrom(s, i) ==
  LET starts == {k \in i..(Len(s) - 1) : s[k] = " " /\ s[k + 1] = " "}
  IN IF starts = {} THEN SubSeq(s, i, Len(s))
     ELSE LET k == First(starts)
          IN SubSeq(s, i, k - 1) \o SpacesFrom(s, k + 1)

CollapseWs_SpacesOnly(s) == SpacesFrom(s, 1)

CollapseWs(s) == CollapseFrom(s, 1)

\* the compression stage
Compress(s) == Trim(CollapseWs(RemoveTagGaps(s)))

\* s.replace(/></g, '>\n<') from position i on
RECURSIVE BreakFrom(_, _)
BreakFrom(s, i) ==
  LET starts == {k \in i..Len(s) : MatchAt(s, k, <<">", "<">>)}
  IN IF starts = {} THEN SubSeq(s, i, Len(s))
     ELSE LET k == First(starts)
          IN SubSeq(s, i, k) \o <<"\n", "<">> \o BreakFrom(s, k + 2)

BreakTags(s) == BreakFrom(s, 1)

\* the positions a match of /\s+$/m that starts at k can end at: inside the
\* whitespace run, at the end of the text or right before a line terminator
LineEnds(s, k) ==
  {e \in k..(WsRunEnd(s, k) - 1) : e = Len(s) \/ IsLineTerm(s[e + 1])}

\* /^\s+/m matches at position k of s
LineStartAt(s, k) == IsWs(s[k]) /\ (k = 1 \/ IsLineTerm(s[k - 1]))

\* s.replace(/^\s+|\s+$/gm, '') from position i on: at a line start the whole
\* whitespace run goes; elsewhere the longest part of the run that ends at
\* the end of the text or right before a line terminator goes
RECURSIVE TrimLinesFrom(_, _)
TrimLinesFrom(s, i) ==
  LET starts == {k \in i..Len(s) :
                   LineStartAt(s, k) \/ (IsWs(s[k]) /\ LineEnds(s, k) # {})}
  IN IF starts = {} THEN SubSeq(s, i, Len(s))
     ELSE LET k == First(starts)
              next == IF LineStartAt(s, k) THEN WsRunEnd(s, k)
                      ELSE Last(LineEnds(s, k)) + 1
          IN SubSeq(s, i, k - 1) \o TrimLinesFrom(s, next)

TrimLines(s) == TrimLinesFrom(s, 1)

\* the pretty-print stage
PrettyPrint(s) == TrimLines(BreakTags(s))

\* ------------------------------------------------------------------------
\* The page: a DOM tree, read and changed through the driver's primitives
\* ------------------------------------------------------------------------
Tag_html == <<"h", "t", "m", "l">>

Tag_head == <<"h", "e", "a", "d">>

Tag_body == <<"b", "o", "d", "y">>

Tag_script == <<"s", "c", "r", "i", "p", "t">>

Tag_style == <<"s", "t", "y", "l", "e">>

Tag_noscript == <<"n", "o", "s", "c", "r", "i", "p", "t">>

Tag_meta == <<"m", "e", "t", "a">>

Tag_link == <<"l", "i", "n", "k">>

Tag_title == <<"t", "i", "t", "l", "e">>

Tag_p == <<"p">>

\* a type selector no element of the modelled pages matches
Tag_q == <<"q">>

\* a selector the browser rejects with a syntax error
BadSelector == <<"p", "[">>

Letters ==
  {"a", "b", "c", "d", "e", "h", "i", "k", "l", "m", "n", "o", "p", "q",
   "r", "s", "t", "y"}

El(tag, children) == [kind |-> "element", tag |-> tag, children |-> children]

Txt(data) == [kind |-> "text", data |-> data]

Cmt(data) == [kind |-> "comment", data |-> data]

\* elements serialized without an end tag
IsVoid(tag) == tag \in {Tag_meta, Tag_link}

\* Element.outerHTML, and the serialization of a node list
RECURSIVE Serialize(_)
Serialize(nodes) ==
  IF nodes = <<>> THEN <<>>
  ELSE LET n == Head(nodes)
           one == IF n.kind = "text" THEN n.data
                  ELSE IF n.kind = "comment"
                       THEN CommentOpen \o n.data \o CommentClose
                  ELSE IF IsVoid(n.tag) THEN <<"<">> \o n.tag \o <<">">>
                  ELSE <<"<">> \o n.tag \o <<">">> \o Serialize(n.children)
                       \o <<"<", "/">> \o n.tag \o <<">">>
       IN one \o Serialize(Tail(nodes))

OuterHTML(el) == Serialize(<<el>>)

\* page.content(): the serialization of the document element
Content(doc) == Serialize(SelectSeq(doc, LAMBDA n : n.kind = "element"))

\* the selectors of the model are type selectors; anything else is a syntax
\* error, on which $$eval and $eval throw
IsValidSelector(sel) == sel # <<>> /\ \A i \in 1..Len(sel) : sel[i] \in Letters

\* querySelectorAll(sel): the matching elements in document order
RECURSIVE QueryAll(_, _)
QueryAll(nodes, sel) ==
  IF nodes = <<>> THEN <<>>
  ELSE LET n == Head(nodes)
       IN IF n.kind # "element" THEN QueryAll(Tail(nodes), sel)
          ELSE (IF n.tag = sel THEN <<n>> ELSE <<>>)
               \o QueryAll(n.children, sel) \o QueryAll(Tail(nodes), sel)

\* elements.forEach(el => el.remove()) over querySelectorAll(tag)
RECURSIVE RemoveAll(_, _)
RemoveAll(nodes, tag) ==
  IF nodes = <<>> THEN <<>>
  ELSE LET n == Head(nodes)
       IN IF n.kind # "element" THEN <<n>> \o RemoveAll(Tail(nodes), tag)
          ELSE IF n.tag = tag THEN RemoveAll(Tail(nodes), tag)
          ELSE <<[n EXCEPT !.children = RemoveAll(@, tag)]>>
               \o RemoveAll(Tail(nodes), tag)

\* join('\n') of the outer markup of a list of elements
RECURSIVE JoinOuter(_)
JoinOuter(els) ==
  IF els = <<>> THEN <<>>
  ELSE IF Len(els) = 1 THEN OuterHTML(els[1])
  ELSE OuterHTML(els[1]) \o <<"\n">> \o JoinOuter(Tail(els))

\* ------------------------------------------------------------------------
\* Parameters: an object is a function on the keys it has
\* ------------------------------------------------------------------------
Has(obj, k) == k \in DOMAIN obj

\* a boolean option is truthy when present and true
IsTrue(obj, k) == Has(obj, k) /\ obj[k] = TRUE

\* a string option is truthy when present and not empty
IsSet(obj, k) == Has(obj, k) /\ obj[k] # <<>>

\* { ...base, ...forced }
Spread(base, forced) == forced @@ base

\* the preset switch with the spread order reversed: the caller's keys win
ResolvePreset_CallerWins(params) ==
  IF ~(Has(params, "preset") /\ params.preset # "") THEN params
  ELSE IF params.preset = "minimal"
       THEN Spread([excludeTags |-> <<Tag_script, Tag_style, Tag_noscript>>,
                    compress |-> TRUE, includeComments |-> FALSE], params)
  ELSE IF params.preset = "structure"
       THEN Spread([excludeTags |-> <<Tag_script, Tag_style>>, compress |-> TRUE],
                   params)
  ELSE IF params.preset = "content"
       THEN Spread([excludeTags |-> <<Tag_script, Tag_style, Tag_meta, Tag_link>>,
                    compress |-> TRUE], params)
  ELSE params

\* lines 56-76: the preset switch
ResolvePreset(params) ==
  IF ~(Has(params, "preset") /\ params.preset # "") THEN params
  ELSE IF params.preset = "minimal"
       THEN Spread(params, [excludeTags |-> <<Tag_script, Tag_style, Tag_noscript>>,
                            compress |-> TRUE, includeComments |-> FALSE])
  ELSE IF params.preset = "structure"
       THEN Spread(params, [excludeTags |-> <<Tag_script, Tag_style>>,
                            compress |-> TRUE])
  ELSE IF params.preset = "content"
       THEN Spread(params, [excludeTags |-> <<Tag_script, Tag_style, Tag_meta, Tag_link>>,
                            compress |-> TRUE])
  ELSE params

\* lines 82-96: remove the elements of every listed tag from the live page;
\* a tag the browser rejects throws inside $$eval and is ignored
RECURSIVE ExcludeTags(_, _)
ExcludeTags(doc, tags) ==
  IF tags = <<>> THEN doc
  ELSE ExcludeTags(IF IsValidSelector(Head(tags)) THEN RemoveAll(doc, Head(tags))
                   ELSE doc,
                   Tail(tags))

SelectorPlaceholder(sel) ==
  <<"<", "!", "-", "-", " ", "S", "e", "l", "e", "c", "t", "o", "r", " ", "\"">>
  \o sel
  \o <<"\"", " ", "n", "o", "t", " ", "f", "o", "u", "n", "d", " ", "-", "-", ">">>

HeadPlaceholder ==
  <<"<", "!", "-", "-", " ", "N", "o", " ", "<", "h", "e", "a", "d", ">", " ",
    "s", "e", "c", "t", "i", "o", "n", " ", "f", "o", "u", "n", "d", " ", "-", "-", ">">>

BodyPlaceholder ==
  <<"<", "!", "-", "-", " ", "N", "o", " ", "<", "b", "o", "d", "y", ">", " ",
    "s", "e", "c", "t", "i", "o", "n", " ", "f", "o", "u", "n", "d", " ", "-", "-", ">">>

\* region selection that tests headOnly before selector
SelectRegion_HeadFirst(doc, fp, whole) ==
  IF IsTrue(fp, "headOnly")
  THEN LET els == QueryAll(doc, Tag_head)
       IN IF els # <<>> THEN OuterHTML(els[1]) ELSE HeadPlaceholder
  ELSE IF IsSet(fp, "selector")
  THEN LET els == IF IsValidSelector(fp.selector) THEN QueryAll(doc, fp.selector)
                  ELSE <<>>
       IN IF els # <<>> THEN JoinOuter(els) ELSE SelectorPlaceholder(fp.selector)
  ELSE IF IsTrue(fp, "bodyOnly")
  THEN LET els == QueryAll(doc, Tag_body)
       IN IF els # <<>> THEN OuterHTML(els[1]) ELSE BodyPlaceholder
  ELSE whole

\* lines 101-123: selector, else headOnly, else bodyOnly, else the document
SelectRegion(doc, fp, whole) ==
  IF IsSet(fp, "selector")
  THEN LET els == IF IsValidSelector(fp.selector) THEN QueryAll(doc, fp.selector)
                  ELSE <<>>
       IN IF els # <<>> THEN JoinOuter(els) ELSE SelectorPlaceholder(fp.selector)
  ELSE IF IsTrue(fp, "headOnly")
  THEN LET els == QueryAll(doc, Tag_head)
       IN IF els # <<>> THEN OuterHTML(els[1]) ELSE HeadPlaceholder
  ELSE IF IsTrue(fp, "bodyOnly")
  THEN LET els == QueryAll(doc, Tag_body)
       IN IF els # <<>> THEN OuterHTML(els[1]) ELSE BodyPlaceholder
  ELSE whole

\* the pretty-print guard without its compression test
PrettyPrintEnabled_IgnoreCompress(fp) == IsTrue(fp, "prettyPrint")

\* line 139: pretty printing runs only when compression is off
PrettyPrintEnabled(fp) == IsTrue(fp, "prettyPrint") /\ ~IsTrue(fp, "compress")

\* lines 125-144: comment stripping, compression, pretty printing
FilterText(text, fp) ==
  LET s1 == IF ~IsTrue(fp, "includeComments") THEN StripComments(text) ELSE text
      s2 == IF IsTrue(fp, "compress") THEN Compress(s1) ELSE s1
  IN IF PrettyPrintEnabled(fp) THEN PrettyPrint(s2) ELSE s2

\* Paginate with hasMore = endPos <= totalLength
Paginate_HasMoreLe(htmlSource, fp) ==
  LET totalLength == Len(htmlSource)
      offset == IF Has(fp, "offset") /\ fp.offset # 0 THEN fp.offset ELSE 0
  IN IF Has(fp, "maxLength")
     THEN LET endPos == Min(offset + fp.maxLength, totalLength)
              resultContent == JsSlice(htmlSource, offset, endPos)
          IN [content |-> resultContent, totalLength |-> totalLength,
              hasMore |-> endPos <= totalLength, actualOffset |-> offset,
              actualLength |-> Len(resultContent)]
     ELSE LET resultContent == IF offset > 0
                               THEN JsSlice(htmlSource, offset, totalLength)
                               ELSE htmlSource
          IN [content |-> resultContent, totalLength |-> totalLength,
              hasMore |-> FALSE, actualOffset |-> offset,
              actualLength |-> Len(resultContent)]

\* Paginate with hasMore = endPos < totalLength - 1
Paginate_HasMoreEarly(htmlSource, fp) ==
  LET totalLength == Len(htmlSource)
      offset == IF Has(fp, "offset") /\ fp.offset # 0 THEN fp.offset ELSE 0
  IN IF Has(fp, "maxLength")
     THEN LET endPos == Min(offset + fp.maxLength, totalLength)
              resultContent == JsSlice(htmlSource, offset, endPos)
          IN [content |-> resultContent, totalLength |-> totalLength,
              hasMore |-> endPos < totalLength - 1, actualOffset |-> offset,
              actualLength |-> Len(resultContent)]
     ELSE LET resultContent == IF offset > 0
                               THEN JsSlice(htmlSource, offset, totalLength)
                               ELSE htmlSource
          IN [content |-> resultContent, totalLength |-> totalLength,
              hasMore |-> FALSE, actualOffset |-> offset,
              actualLength |-> Len(resultContent)]

\* Paginate that returns the whole text whenever maxLength is omitted
Paginate_IgnoreOffset(htmlSource, fp) ==
  LET totalLength == Len(htmlSource)
      offset == IF Has(fp, "offset") /\ fp.offset # 0 THEN fp.offset ELSE 0
  IN IF Has(fp, "maxLength")
     THEN LET endPos == Min(offset + fp.maxLength, totalLength)
              resultContent == JsSlice(htmlSource, offset, endPos)
          IN [content |-> resultContent, totalLength |-> totalLength,
              hasMore |-> endPos < totalLength, actualOffset |-> offset,
              actualLength |-> Len(resultContent)]
     ELSE [content |-> htmlSource, totalLength |-> totalLength,
           hasMore |-> FALSE, actualOffset |-> offset,
           actualLength |-> Len(htmlSource)]

\* lines 146-174: the window and the response
Paginate(htmlSource, fp) ==
  LET totalLength == Len(htmlSource)
      offset == IF Has(fp, "offset") /\ fp.offset # 0 THEN fp.offset ELSE 0
  IN IF Has(fp, "maxLength")
     THEN LET endPos == Min(offset + fp.maxLength, totalLength)
              resultContent == JsSlice(htmlSource, offset, endPos)
          IN [content |-> resultContent, totalLength |-> totalLength,
              hasMore |-> endPos < totalLength, actualOffset |-> offset,
              actualLength |-> Len(resultContent)]
     ELSE LET resultContent == IF offset > 0
                               THEN JsSlice(htmlSource, offset, totalLength)
                               ELSE htmlSource
          IN [content |-> resultContent, totalLength |-> totalLength,
              hasMore |-> FALSE, actualOffset |-> offset,
              actualLength |-> Len(resultContent)]

\* the handler with the tag exclusion run on a copy of the page
GetHtmlSource_ExcludeOnCopy(doc, ps) ==
  LET fp == ResolvePreset(ps)
      doc1 == IF Has(fp, "excludeTags") /\ Len(fp.excludeTags) > 0
              THEN ExcludeTags(doc, fp.excludeTags) ELSE doc
      text == FilterText(SelectRegion(doc1, fp, Content(doc1)), fp)
  IN [page |-> doc, finalParams |-> fp, htmlSource |-> text,
      response |-> Paginate(text, fp)]

\* lines 53-192: the whole handler on page doc with parameters ps
GetHtmlSource(doc, ps) ==
  LET fp == ResolvePreset(ps)
      doc1 == IF Has(fp, "excludeTags") /\ Len(fp.excludeTags) > 0
              THEN ExcludeTags(doc, fp.excludeTags) ELSE doc
      text == FilterText(SelectRegion(doc1, fp, Content(doc1)), fp)
  IN [page |-> doc1, finalParams |-> fp, htmlSource |-> text,
      response |-> Paginate(text, fp)]

\* ------------------------------------------------------------------------
\* Inputs: the pages and the parameter objects the runs draw from
\* ------------------------------------------------------------------------
\* a paragraph whose text holds a line break
Para == El(Tag_p, <<Txt(<<"\n", "a">>)>>)

BodyNodes ==
  {Para, El(Tag_script, <<Txt(<<"x">>)>>), Cmt(<<"c">>), Txt(<<"\n", " ">>)}

HeadVariants ==
  {<<El(Tag_title, <<Txt(<<"T">>)>>)>>,
   <<El(Tag_meta, <<>>), Txt(<<"\n">>), El(Tag_style, <<Txt(<<"s">>)>>)>>}

NodeSeqs(nodes, n) == UNION {[1..k -> nodes] : k \in 0..n}

\* a parsed document always has a head and a body
Document(headKids, bodyKids) ==
  <<El(Tag_html, <<El(Tag_head, headKids), El(Tag_body, bodyKids)>>)>>

Pages == {Document(h, b) : h \in HeadVariants, b \in NodeSeqs(BodyNodes, MaxBody)}

PagingPages ==
  {Document(<<>>, b) : b \in NodeSeqs({Para, Cmt(<<"c">>)}, MaxBody)}

\* the objects with at most the key k, its value drawn from vals
Opt(k, vals) == {<<>>} \cup {k :> v : v \in vals}

RegionOpts ==
  {<<>>, [selector |-> Tag_p], [selector |-> Tag_q], [selector |-> BadSelector],
   [headOnly |-> TRUE], [bodyOnly |-> TRUE],
   [headOnly |-> TRUE, bodyOnly |-> TRUE],
   [selector |-> Tag_p, headOnly |-> TRUE, bodyOnly |-> TRUE]}

ExcludeOpts == {<<>>, [excludeTags |-> <<BadSelector, Tag_head, Tag_body>>]}

FlagParams ==
  {c @@ pp @@ ic @@ r @@ x :
     c \in Opt("compress", {TRUE}), pp \in Opt("prettyPrint", {TRUE}),
     ic \in Opt("includeComments", {TRUE}), r \in RegionOpts, x \in ExcludeOpts}

PresetNames == {"full", "minimal", "structure", "content"}

PresetParams ==
  {[preset |-> ps] @@ pp @@ ic @@ r :
     ps \in PresetNames, pp \in Opt("prettyPrint", {TRUE}),
     ic \in Opt("includeComments", {TRUE, FALSE}),
     r \in {<<>>, [selector |-> Tag_p]}}

FilterParams == FlagParams \cup PresetParams

Offsets == (0 - MaxNeg)..MaxOffset

PagingParams ==
  {o @@ m @@ r :
     o \in Opt("offset", Offsets), m \in Opt("maxLength", Offsets),
     r \in {<<>>, [selector |-> Tag_p], [selector |-> Tag_q]}}

\* ------------------------------------------------------------------------
\* The state machine
\* ------------------------------------------------------------------------
VARIABLES
  page,         \* the live document of the current tab
  pc,           \* "idle", "called" (a tool call is pending), "done"
  params,       \* the parameters of the pending or last tool call
  finalParams,  \* the handler's finalParams
  htmlSource,   \* the handler's htmlSource when it reaches the pagination
  response,     \* the HtmlSourceResponse of the last call
  client        \* a client that pages through the text

\* the state browser_get_request_info works on
VARIABLES
  tabUrl,       \* page.url() of the current tab
  jar,          \* the cookies of the browser context, in jar order
  listeners,    \* the invocations whose captureRequest is subscribed to 'request'
  inv,          \* the invocations of browser_get_request_info, by identity
  emitted,      \* number of requests the tab has emitted besides reloads
  net           \* the requests the tab has recorded, and browser_network_requests

htmlVars == <<page, pc, params, finalParams, htmlSource, response, client>>

reqVars == <<tabUrl, jar, listeners, inv, emitted, net>>

vars == <<page, pc, params, finalParams, htmlSource, response, client,
          tabUrl, jar, listeners, inv, emitted, net>>

\* the invocations that may overlap on the tab
Invocations == {1, 2}

\* an invocation that has not started: requestInfo is {} (line 271); observed
\* lists the requests its listener was called with, on and off count its
\* page.on and page.off calls
NewInvocation ==
  [pc |-> "idle", reload |-> FALSE, navigated |-> FALSE, requestInfo |-> <<>>,
   observed |-> <<>>, on |-> 0, off |-> 0, result |-> <<>>]

\* no invocation of browser_get_request_info has started
ReqIdle ==
  /\ listeners = {}
  /\ inv = [i \in Invocations |-> NewInvocation]
  /\ emitted = 0
  /\ net = [requests |-> <<>>, state |-> "idle", log |-> <<>>]

NoResponse ==
  [content |-> <<>>, totalLength |-> 0, hasMore |-> FALSE, actualOffset |-> 0,
   actualLength |-> 0]

NoClient == [state |-> "off", acc |-> <<>>, text |-> <<>>, calls |-> 0]

InitOn(pages) ==
  /\ page \in pages
  /\ pc = "idle"
  /\ params = <<>>
  /\ finalParams = <<>>
  /\ htmlSource = <<>>
  /\ response = NoResponse
  /\ client = NoClient
  /\ tabUrl = <<>>
  /\ jar = <<>>
  /\ ReqIdle

Init == InitOn(Pages)

\* a client invokes browser_get_html_source with parameters p
Call(p) ==
  /\ pc = "idle"
  /\ client.state = "off"
  /\ pc' = "called"
  /\ params' = p
  /\ UNCHANGED <<page, finalParams, htmlSource, response, client>>
  /\ UNCHANGED reqVars

\* the handler runs (lines 53-192)
Handle ==
  /\ pc = "called"
  /\ LET r == GetHtmlSource(page, params)
     IN /\ page' = r.page
        /\ finalParams' = r.finalParams
        /\ htmlSource' = r.htmlSource
        /\ response' = r.response
  /\ pc' = "done"
  /\ UNCHANGED <<params, client>>
  /\ UNCHANGED reqVars

\* the response is delivered; nothing of the call is kept but the page
Return ==
  /\ pc = "done"
  /\ client.state = "off"
  /\ pc' = "idle"
  /\ params' = <<>>
  /\ finalParams' = <<>>
  /\ htmlSource' = <<>>
  /\ response' = NoResponse
  /\ UNCHANGED <<page, client>>
  /\ UNCHANGED reqVars

CallFilter == \E p \in FilterParams : Call(p)

Next == CallFilter \/ Handle \/ Return

Spec == Init /\ [][Next]_vars

\* ------------------------------------------------------------------------
\* Pagination runs: offsets and window sizes vary, negative ones included
\* ------------------------------------------------------------------------
InitPaging == InitOn(PagingPages)

CallPaging == \E p \in PagingParams : Call(p)

NextPaging == CallPaging \/ Handle \/ Return

SpecPaging == InitPaging /\ [][NextPaging]_vars

\* the offset the caller asked for (0 when absent)
CallerOffset(fp) == IF Has(fp, "offset") THEN fp.offset ELSE 0

\* the characters of s from position from + 1 on
Suffix(s, from) == [i \in 1..(Len(s) - from) |-> s[i + from]]

\* ------------------------------------------------------------------------
\* Claims on the pagination (checked under SpecPaging)
\* ------------------------------------------------------------------------
\* a call with maxLength >= 0 and offset >= 0 has returned
WindowCall ==
  /\ pc = "done"
  /\ Has(finalParams, "maxLength")
  /\ finalParams.maxLength >= 0
  /\ CallerOffset(finalParams) >= 0

\* C2: whenever maxLength is supplied, with offset >= 0 and maxLength >= 0,
\* actualOffset + actualLength <= totalLength, and an offset beyond
\* totalLength gives an empty content.
C2_WindowWithinText ==
  WindowCall =>
    /\ response.actualOffset + response.actualLength <= response.totalLength
    /\ CallerOffset(finalParams) > response.totalLength => response.content = <<>>

\* C3: whenever maxLength is supplied, with offset >= 0 and maxLength >= 0,
\* actualLength is the length of content, and hasMore is true exactly when
\* actualOffset + actualLength < totalLength.
C3_HasMoreExact ==
  WindowCall =>
    /\ response.totalLength = Len(htmlSource)
    /\ response.actualLength = Len(response.content)
    /\ response.hasMore
         <=> (response.actualOffset + response.actualLength < response.totalLength)

\* a window inside the text that stops short of its end
C3_Witness ==
  /\ WindowCall
  /\ response.hasMore
  /\ response.actualOffset > 0
  /\ response.actualLength > 0

\* C4: when maxLength is omitted, hasMore is false for every offset, content
\* is the filtered text from the offset to its end (the whole text for an
\* offset <= 0), and with the offset absent or 0 actualOffset = 0 and
\* actualLength = totalLength.
C4_NoMaxLength ==
  (pc = "done" /\ ~Has(finalParams, "maxLength")) =>
    /\ response.hasMore = FALSE
    /\ response.content
         = Suffix(htmlSource, Min(Max(CallerOffset(finalParams), 0), Len(htmlSource)))
    /\ CallerOffset(finalParams) = 0 =>
         /\ response.actualOffset = 0
         /\ response.actualLength = response.totalLength
         /\ response.content = htmlSource

\* text remains before the offset, and hasMore is false all the same
C4_Witness ==
  /\ pc = "done"
  /\ ~Has(finalParams, "maxLength")
  /\ CallerOffset(finalParams) > 0
  /\ CallerOffset(finalParams) < Len(htmlSource)
  /\ response.content # <<>>

\* C5: a negative offset or maxLength is rejected or clamped to 0: the
\* handler never rejects, so actualOffset is never negative and the content
\* is the window that starts at the clamped offset, never one counted from
\* the end of the text.
C5_NegativeNeverWraps ==
  (/\ pc = "done"
   /\ \/ CallerOffset(finalParams) < 0
      \/ Has(finalParams, "maxLength") /\ finalParams.maxLength < 0) =>
    /\ response.actualOffset >= 0
    /\ MatchAt(htmlSource, Max(CallerOffset(finalParams), 0) + 1, response.content)
    /\ Has(finalParams, "maxLength") /\ finalParams.maxLength < 0 =>
         response.content = <<>>

\* ------------------------------------------------------------------------
\* A paging client: first call at offset 0, then offset = actualOffset +
\* actualLength while hasMore, with the same maxLength and filter options
\* ------------------------------------------------------------------------
ClientOpts ==
  {<<>>, [selector |-> Tag_p], [compress |-> TRUE, includeComments |-> TRUE]}

ClientStart(m, opts, first) ==
  /\ pc = "idle"
  /\ client.state # "paging"
  /\ pc' = "called"
  /\ params' = [maxLength |-> m] @@ first @@ opts
  /\ client' = [state |-> "paging", acc |-> <<>>, text |-> <<>>, calls |-> 0]
  /\ UNCHANGED <<page, finalParams, htmlSource, response>>
  /\ UNCHANGED reqVars

\* the client appends the window it got; it asks for the next one while
\* hasMore is true
ClientReceive ==
  /\ pc = "done"
  /\ client.state = "paging"
  /\ LET acc == client.acc \o response.content
         text == IF client.calls = 0 THEN htmlSource ELSE client.text
     IN IF response.hasMore
        THEN /\ client' = [client EXCEPT !.acc = acc, !.text = text,
                                         !.calls = @ + 1]
             /\ params' = [offset |-> response.actualOffset + response.actualLength]
                          @@ params
             /\ pc' = "called"
        ELSE /\ client' = [client EXCEPT !.acc = acc, !.text = text,
                                         !.calls = @ + 1, !.state = "complete"]
             /\ params' = <<>>
             /\ pc' = "idle"
  /\ UNCHANGED <<page, finalParams, htmlSource, response>>
  /\ UNCHANGED reqVars

ClientBegin ==
  \E m \in 1..MaxChunk, opts \in ClientOpts, first \in Opt("offset", {0}) :
    ClientStart(m, opts, first)

NextClient == ClientBegin \/ Handle \/ ClientReceive

SpecClient == InitPaging /\ [][NextClient]_vars

\* C1: the windows of a paging run (maxLength >= 1, page and filter options
\* unchanged), concatenated in call order, are the filtered text exactly.
C1_RoundTrip ==
  client.state = "complete" =>
    /\ client.acc = client.text
    /\ client.text = htmlSource

\* a run of at least three windows has completed
C1_Witness ==
  /\ client.state = "complete"
  /\ client.calls >= 3
  /\ client.acc # <<>>

\* ------------------------------------------------------------------------
\* Claims on the filtering (checked under Spec)
\* ------------------------------------------------------------------------
\* the placeholder region selection substitutes when it finds nothing; page
\* is the document the selection read, the one left by the tag exclusion
RegionFailure ==
  IF IsSet(finalParams, "selector")
  THEN IF IsValidSelector(finalParams.selector)
          /\ QueryAll(page, finalParams.selector) # <<>>
       THEN <<>> ELSE SelectorPlaceholder(finalParams.selector)
  ELSE IF IsTrue(finalParams, "headOnly")
  THEN IF QueryAll(page, Tag_head) # <<>> THEN <<>> ELSE HeadPlaceholder
  ELSE IF IsTrue(finalParams, "bodyOnly")
  THEN IF QueryAll(page, Tag_body) # <<>> THEN <<>> ELSE BodyPlaceholder
  ELSE <<>>

\* C6: when region selection fails, the content returned with offset 0 and
\* no maxLength contains the placeholder comment naming the failure,
\* whatever the other options are (the default includeComments included).
C6_PlaceholderReturned ==
  (/\ pc = "done"
   /\ RegionFailure # <<>>
   /\ ~Has(finalParams, "maxLength")
   /\ CallerOffset(finalParams) = 0) =>
    Includes(response.content, RegionFailure)

\* C8: whenever the effective compress option is true, the returned content
\* holds no newline character, whatever the page and the other options are.
C8_CompressedHasNoNewline ==
  (pc = "done" /\ IsTrue(finalParams, "compress")) =>
    ~Includes(response.content, <<"\n">>)

\* a page with line breaks in its text, compressed with prettyPrint asked for
C8_Witness ==
  /\ pc = "done"
  /\ IsTrue(finalParams, "compress")
  /\ IsTrue(finalParams, "prettyPrint")
  /\ Includes(Content(page), <<"\n", "a">>)
  /\ Includes(response.content, <<" ", "a">>)

\* obj without the key k
Without(obj, k) == [x \in (DOMAIN obj) \ {k} |-> obj[x]]

\* C10: a call with prettyPrint = true and compress = true returns exactly
\* the response (content, totalLength, hasMore, actualOffset, actualLength)
\* of the same call on the same page with compress = true and prettyPrint
\* absent.
C10_PrettyPrintIgnoredUnderCompress ==
  [][(/\ pc = "called"
      /\ pc' = "done"
      /\ IsTrue(params, "compress")
      /\ IsTrue(params, "prettyPrint")) =>
       response' = GetHtmlSource(page, Without(params, "prettyPrint")).response]_vars

\* such a call has returned a text with adjacent tags, where pretty printing
\* would have inserted line breaks
C10_Witness ==
  /\ pc = "done"
  /\ IsTrue(params, "compress")
  /\ IsTrue(params, "prettyPrint")
  /\ Includes(response.content, <<">", "<">>)

\* ------------------------------------------------------------------------
\* Preset runs: every preset against a wide choice of caller options
\* ------------------------------------------------------------------------
PresetPages == {Document(h, <<Para, Cmt(<<"c">>)>>) : h \in HeadVariants}

WideParams ==
  {ps @@ c @@ ic @@ pp @@ x @@ r @@ w :
     ps \in Opt("preset", PresetNames \cup {"other"}),
     c \in Opt("compress", BOOLEAN),
     ic \in Opt("includeComments", BOOLEAN),
     pp \in Opt("prettyPrint", {TRUE}),
     x \in Opt("excludeTags", {<<Tag_p>>}),
     r \in {<<>>, [selector |-> Tag_p], [headOnly |-> TRUE],
            [selector |-> Tag_q, headOnly |-> FALSE, bodyOnly |-> TRUE]},
     w \in {<<>>, [offset |-> 1], [offset |-> 2, maxLength |-> 5]}}

InitPreset == InitOn(PresetPages)

CallPreset == \E p \in WideParams : Call(p)

NextPreset == CallPreset \/ Handle \/ Return

SpecPreset == InitPreset /\ [][NextPreset]_vars

\* the keys a preset never names
CallerKeys ==
  {"selector", "offset", "maxLength", "headOnly", "bodyOnly", "prettyPrint", "preset"}

\* fp has key k exactly when ps has it, with the same value
SameKey(fp, ps, k) ==
  /\ Has(fp, k) <=> Has(ps, k)
  /\ Has(ps, k) => fp[k] = ps[k]

\* C7: preset resolution changes only the keys the preset names: minimal
\* forces excludeTags = [script, style, noscript], compress = true and
\* includeComments = false; structure forces excludeTags = [script, style]
\* and compress = true; content forces excludeTags = [script, style, meta,
\* link] and compress = true; full, absent and unrecognised presets leave
\* every option as given; all other keys keep the caller's values.
C7_PresetTable ==
  pc = "done" =>
    LET preset == IF Has(params, "preset") THEN params.preset ELSE "full"
    IN /\ \A k \in CallerKeys : SameKey(finalParams, params, k)
       /\ preset = "minimal" =>
            /\ finalParams.excludeTags = <<Tag_script, Tag_style, Tag_noscript>>
            /\ finalParams.compress = TRUE
            /\ finalParams.includeComments = FALSE
       /\ preset = "structure" =>
            /\ finalParams.excludeTags = <<Tag_script, Tag_style>>
            /\ finalParams.compress = TRUE
            /\ SameKey(finalParams, params, "includeComments")
       /\ preset = "content" =>
            /\ finalParams.excludeTags = <<Tag_script, Tag_style, Tag_meta, Tag_link>>
            /\ finalParams.compress = TRUE
            /\ SameKey(finalParams, params, "includeComments")
       /\ preset \notin {"minimal", "structure", "content"} =>
            finalParams = params

\* preset minimal has overridden the caller's excludeTags, compress and
\* includeComments and kept the caller's selector, offset and maxLength
C7_Witness ==
  /\ pc = "done"
  /\ Has(params, "preset") /\ params.preset = "minimal"
  /\ Has(params, "compress") /\ params.compress = FALSE
  /\ Has(params, "includeComments") /\ params.includeComments = TRUE
  /\ Has(params, "excludeTags")
  /\ Has(finalParams, "selector") /\ Has(finalParams, "maxLength")
  /\ finalParams.compress = TRUE

\* the claim on the tag exclusion (checked under SpecPreset)
\* the tags a call with final parameters fp excludes
ExcludedTags(fp) ==
  IF Has(fp, "excludeTags") THEN {fp.excludeTags[i] : i \in 1..Len(fp.excludeTags)}
  ELSE {}

\* the tags the calls of the runs exclude
ExcludableTags ==
  {Tag_head, Tag_body, Tag_script, Tag_style, Tag_noscript, Tag_meta, Tag_link,
   Tag_p, BadSelector}

\* s holds the start tag of an element t outside of comments
HoldsElement(s, t) == Includes(StripComments(s), <<"<">> \o t \o <<">">>)

\* C12: once a call whose effective excludeTags contains a tag t has
\* completed, the content of that call and of every later call on the same
\* page, whatever its options and region selection, contains no element of
\* tag t.  As a property of every step: a completed call leaves no element of
\* a tag it excludes, no step brings back an element of a tag the page has
\* none of, and a call on a page without elements of t returns none.
C12_ExclusionPersists ==
  [][\A t \in ExcludableTags :
       /\ (pc' = "done" /\ t \in ExcludedTags(finalParams')) =>
            QueryAll(page', t) = <<>>
       /\ QueryAll(page, t) = <<>> => QueryAll(page', t) = <<>>
       /\ (pc' = "done" /\ QueryAll(page', t) = <<>>) =>
            ~HoldsElement(response'.content, t)]_vars

\* a call without excludeTags has returned the head of a page whose
\* paragraphs and style elements earlier calls removed
C12_Witness ==
  /\ pc = "done"
  /\ ExcludedTags(finalParams) = {}
  /\ IsTrue(finalParams, "headOnly")
  /\ QueryAll(page, Tag_p) = <<>>
  /\ QueryAll(page, Tag_style) = <<>>
  /\ Includes(response.content, <<"<">> \o Tag_meta \o <<">">>)

\* ------------------------------------------------------------------------
\* Text runs: the compression stage on every text over a small alphabet
\* ------------------------------------------------------------------------
TextAlphabet == {"<", ">", " ", "\n", "a"}

Texts == UNION {[1..n -> TextAlphabet] : n \in 0..MaxText}

InitText ==
  /\ page = <<>>
  /\ pc = "text"
  /\ params = [compress |-> TRUE]
  /\ finalParams = [compress |-> TRUE]
  /\ htmlSource \in Texts
  /\ response = NoResponse
  /\ client = NoClient
  /\ tabUrl = <<>>
  /\ jar = <<>>
  /\ ReqIdle

\* lines 131-136 applied to the text at hand
ApplyCompress ==
  /\ pc \in {"text", "compressed"}
  /\ htmlSource' = Compress(htmlSource)
  /\ pc' = "compressed"
  /\ UNCHANGED <<page, params, finalParams, response, client>>
  /\ UNCHANGED reqVars

NextText == ApplyCompress

SpecText == InitText /\ [][NextText]_vars

\* C9: the compression stage is idempotent: applied to its own output it
\* returns that output unchanged.
C9_CompressIdempotent ==
  pc = "compressed" => Compress(htmlSource) = htmlSource

\* the stage has rewritten a text with a tag gap, a whitespace run and outer
\* whitespace
C9_Witness ==
  /\ pc = "compressed"
  /\ htmlSource = <<">", "<", "a", " ", "a">>

\* ------------------------------------------------------------------------
\* Comment runs: pages with comments and with a script whose raw text holds
\* comment delimiters
\* ------------------------------------------------------------------------
\* the script text <!-<!---->--->: a complete comment <!----> between the
\* two halves of another pair of delimiters
NestedText ==
  <<"<", "!", "-", "<", "!", "-", "-", "-", "-", ">", "-", "-", "-", ">">>

CommentNodes == {Cmt(<<"c">>), El(Tag_script, <<Txt(NestedText)>>), Para}

CommentPages == {Document(<<>>, b) : b \in NodeSeqs(CommentNodes, MaxBody)}

CommentParams ==
  {ic @@ c @@ r @@ ps :
     ic \in Opt("includeComments", BOOLEAN), c \in Opt("compress", {TRUE}),
     r \in {<<>>, [selector |-> Tag_script], [selector |-> Tag_q], [bodyOnly |-> TRUE]},
     ps \in Opt("preset", {"minimal"})}

InitComments == InitOn(CommentPages)

CallComments == \E p \in CommentParams : Call(p)

NextComments == CallComments \/ Handle \/ Return

SpecComments == InitComments /\ [][NextComments]_vars

\* s holds a comment: an opening delimiter and a closing one after it
HasComment(s) == \E k \in 1..Len(s) : CommentAt(s, k)

\* C11: whenever the effective includeComments is not true, the fully
\* filtered text holds no substring that starts with <!-- and ends with -->,
\* for every page content; when includeComments is true the comment stage
\* leaves the text unchanged (seen where no later stage runs).
C11_NoCommentLeft ==
  pc = "done" =>
    IF ~IsTrue(finalParams, "includeComments")
    THEN ~HasComment(htmlSource)
    ELSE (~IsTrue(finalParams, "compress") /\ ~PrettyPrintEnabled(finalParams)) =>
           htmlSource = SelectRegion(page, finalParams, Content(page))

\* ------------------------------------------------------------------------
\* browser_get_request_info: strings, headers, cookies, post data
\* ------------------------------------------------------------------------
H_cookie == <<"c", "o", "o", "k", "i", "e">>

H_Cookie == <<"C", "o", "o", "k", "i", "e">>

H_contentType == <<"c", "o", "n", "t", "e", "n", "t", "-", "t", "y", "p", "e">>

H_contentLength == <<"c", "o", "n", "t", "e", "n", "t", "-", "l", "e", "n", "g", "t", "h">>

FormType == <<"a", "p", "p", "l", "i", "c", "a", "t", "i", "o", "n", "/", "x", "-", "w", "w", "w", "-", "f", "o", "r", "m", "-", "u", "r", "l", "e", "n", "c", "o", "d", "e", "d">>

M_GET == <<"G", "E", "T">>

RawName == <<"r", "a", "w">>

\* String.prototype.startsWith and endsWith
StartsWith(s, t) == MatchAt(s, 1, t)

EndsWith(s, t) == MatchAt(s, Len(s) - Len(t) + 1, t)

\* String.prototype.toLowerCase (the letters A-Z)
ToLowerCase(s) ==
  LET upper == <<"A", "B", "C", "D", "E", "F", "G", "H", "I", "J", "K", "L", "M",
               "N", "O", "P", "Q", "R", "S", "T", "U", "V", "W", "X", "Y", "Z">>
      lower == <<"a", "b", "c", "d", "e", "f", "g", "h", "i", "j", "k", "l", "m",
               "n", "o", "p", "q", "r", "s", "t", "u", "v", "w", "x", "y", "z">>
  IN [i \in 1..Len(s) |->
        IF \E k \in 1..26 : upper[k] = s[i]
        THEN lower[CHOOSE k \in 1..26 : upper[k] = s[i]]
        ELSE s[i]]

\* Array.prototype.join
RECURSIVE Join(_, _)
Join(parts, sep) ==
  IF parts = <<>> THEN <<>>
  ELSE IF Len(parts) = 1 THEN parts[1]
  ELSE parts[1] \o sep \o Join(Tail(parts), sep)

\* new URL(url).hostname for the http URLs of the model: the characters
\* between "://" and the first of / : ? #, in lower case
Hostname(url) ==
  LET from == First({i \in 1..Len(url) : MatchAt(url, i, <<":", "/", "/">>)}) + 3
      to == First({i \in from..(Len(url) + 1) :
                     i = Len(url) + 1 \/ url[i] \in {"/", ":", "?", "#"}})
  IN ToLowerCase(SubSeq(url, from, to - 1))

\* headers[key] of a header object, kept as the sequence of its entries in
\* insertion order; <<>> stands for undefined (and for '', as falsy)
HeaderGet(headers, key) ==
  LET at == {i \in 1..Len(headers) : headers[i].key = key}
  IN IF at = {} THEN <<>> ELSE headers[First(at)].value

\* headers[key] = value
HeaderSet(headers, key, value) ==
  LET at == {i \in 1..Len(headers) : headers[i].key = key}
  IN IF at = {} THEN Append(headers, [key |-> key, value |-> value])
     ELSE [headers EXCEPT ![First(at)].value = value]

\* lines 306-308: the cookie filter
MatchesCookie(hostname, cookie) ==
  LET cookieDomain == IF StartsWith(cookie.domain, <<".">>) THEN cookie.domain
                      ELSE <<".">> \o cookie.domain
  IN EndsWith(hostname, Tail(cookieDomain)) \/ hostname = cookie.domain

\* lines 316-323: the fields of a cookie the response keeps
CookieRecord(c) ==
  [name |-> c.name, value |-> c.value, domain |-> c.domain, path |-> c.path,
   httpOnly |-> c.httpOnly, secure |-> c.secure]

\* lines 329-331 and 395-397: name=value of every cookie, joined by '; '
CookieString(cookies) ==
  Join([i \in 1..Len(cookies) |-> cookies[i].name \o <<"=">> \o cookies[i].value],
       <<";", " ">>)

\* the characters of the model's strings that encodeURIComponent escapes,
\* with the two hexadecimal digits of each
PercentCode ==
  (" " :> <<"2", "0">>) @@ ("%" :> <<"2", "5">>) @@ ("&" :> <<"2", "6">>)
  @@ ("+" :> <<"2", "B">>) @@ ("=" :> <<"3", "D">>)

\* encodeURIComponent
RECURSIVE EncodeURIComponent(_)
EncodeURIComponent(s) ==
  IF s = <<>> THEN <<>>
  ELSE (IF Head(s) \in DOMAIN PercentCode THEN <<"%">> \o PercentCode[Head(s)]
        ELSE <<Head(s)>>) \o EncodeURIComponent(Tail(s))

\* the form decoding of URLSearchParams: '+' is a space, %XX is the character
\* of that code, anything else stands for itself
RECURSIVE FormDecode(_)
FormDecode(s) ==
  IF s = <<>> THEN <<>>
  ELSE IF Head(s) = "+" THEN <<" ">> \o FormDecode(Tail(s))
  ELSE LET coded == {c \in DOMAIN PercentCode :
                       Len(s) >= 3 /\ <<s[2], s[3]>> = PercentCode[c]}
       IN IF Head(s) = "%" /\ coded # {}
          THEN <<CHOOSE c \in coded : TRUE>> \o FormDecode(SubSeq(s, 4, Len(s)))
          ELSE <<Head(s)>> \o FormDecode(Tail(s))

\* String.prototype.split on a one-character separator
RECURSIVE SplitOn(_, _)
SplitOn(s, sep) ==
  LET at == {i \in 1..Len(s) : s[i] = sep}
  IN IF at = {} THEN <<s>>
     ELSE <<SubSeq(s, 1, First(at) - 1)>>
          \o SplitOn(SubSeq(s, First(at) + 1, Len(s)), sep)

\* Array.from(new URLSearchParams(postData).entries()): the non-empty pieces
\* between '&', each cut at its first '=' and form-decoded
UrlSearchParams(postData) ==
  LET body == IF StartsWith(postData, <<"?">>) THEN Tail(postData) ELSE postData
      pieces == SelectSeq(SplitOn(body, "&"), LAMBDA piece : piece # <<>>)
      Entry(piece) ==
        LET eq == {i \in 1..Len(piece) : piece[i] = "="}
        IN IF eq = {} THEN [name |-> FormDecode(piece), value |-> <<>>]
           ELSE [name |-> FormDecode(SubSeq(piece, 1, First(eq) - 1)),
                 value |-> FormDecode(SubSeq(piece, First(eq) + 1, Len(piece)))]
  IN [i \in 1..Len(pieces) |-> Entry(pieces[i])]

\* lines 365-372; contentType <<>> stands for undefined
ParsePostData(postData, contentType) ==
  IF contentType = <<>> \/ Includes(contentType, FormType)
  THEN UrlSearchParams(postData)
  ELSE <<[name |-> RawName, value |-> postData]>>

\* ------------------------------------------------------------------------
\* browser_get_request_info: the curl synthesizer (lines 374-414)
\* ------------------------------------------------------------------------
\* '${s}'
Quote(s) == <<"'">> \o s \o <<"'">>

\* the method arguments, emitted for every method
MethodArgs_Always(method) == <<<<"-", "X">>, method>>

\* lines 378-380
MethodArgs(method) == IF method # M_GET THEN <<<<"-", "X">>, method>> ELSE <<>>

\* the header test without the lower-casing of the key
SkipHeader_CaseSensitive(key) == key \in {H_cookie, H_contentLength}

\* lines 386, 388: the headers the loop leaves out
SkipHeader(key) == ToLowerCase(key) \in {H_cookie, H_contentLength}

\* lines 387-391: -H 'key: value' for every header kept, in header order
HeaderArgs(headers) ==
  LET kept == SelectSeq(headers, LAMBDA h : ~SkipHeader(h.key))
  IN [j \in 1..(2 * Len(kept)) |->
        IF j % 2 = 1 THEN <<"-", "H">>
        ELSE Quote(kept[j \div 2].key \o <<":", " ">> \o kept[j \div 2].value)]

\* lines 394-399: the Cookie argument built from the cookies of the response
CookieArgs(cookies) ==
  IF Len(cookies) > 0
  THEN <<<<"-", "H">>, Quote(<<"C", "o", "o", "k", "i", "e", ":", " ">> \o CookieString(cookies))>>
  ELSE <<>>

\* lines 402-411: the data argument; params[0] is read without a test
DataArgs(info) ==
  IF ~Has(info, "postData") THEN <<>>
  ELSE LET ps == info.postData.params
       IN IF ps[1].name = RawName THEN <<<<"-", "d">>, Quote(ps[1].value)>>
          ELSE <<<<"-", "d">>,
                 Quote(Join([i \in 1..Len(ps) |->
                               EncodeURIComponent(ps[i].name) \o <<"=">>
                               \o EncodeURIComponent(ps[i].value)],
                            <<"&">>))>>

\* line 403 throws a TypeError when the parsed fields are empty
CurlThrows(info) == Has(info, "postData") /\ info.postData.params = <<>>

\* the argument list of generateCurlCommand
CurlParts(info) ==
  <<<<"c", "u", "r", "l">>>> \o MethodArgs(info.method) \o <<Quote(info.url)>>
  \o HeaderArgs(info.headers) \o CookieArgs(info.cookies) \o DataArgs(info)

\* line 413
GenerateCurlCommand(info) == Join(CurlParts(info), <<" ">>)

\* ------------------------------------------------------------------------
\* browser_get_request_info: the handler (lines 267-362)
\* ------------------------------------------------------------------------
\* a request of the tab; postData <<>> stands for null
Request(resourceType, method, url, headers, postData) ==
  [resourceType |-> resourceType, method |-> method, url |-> url,
   headers |-> headers, postData |-> postData]

Header(key, value) == [key |-> key, value |-> value]

\* a cookie of the context
Cookie(name, value, domain) ==
  [name |-> name, value |-> value, domain |-> domain, path |-> <<"/">>,
   expires |-> 0 - 1, httpOnly |-> FALSE, secure |-> FALSE, sameSite |-> "Lax"]

\* lines 274-285: the listener; it keeps the latest document request
CaptureRequest(requestInfo, request) ==
  IF request.resourceType = "document"
  THEN [url |-> request.url, method |-> request.method,
        headers |-> request.headers, postData |-> request.postData]
  ELSE requestInfo

\* lines 295-300: the request information made up without a reload
SyntheticInfo(url) ==
  [url |-> url, method |-> M_GET, headers |-> <<>>, postData |-> <<>>]

\* lines 304-341: the response before its curlCommand; response.headers is
\* the header object of requestInfo, so the content type is read from it
BuildResponse(requestInfo, pageUrl, cookies) ==
  LET url == IF IsSet(requestInfo, "url") THEN requestInfo.url ELSE pageUrl
      method == IF IsSet(requestInfo, "method") THEN requestInfo.method ELSE M_GET
      headers == IF Has(requestInfo, "headers") THEN requestInfo.headers ELSE <<>>
      cookiesForCurrentPage ==
        SelectSeq(cookies, LAMBDA c : MatchesCookie(Hostname(url), c))
      withCookie ==
        IF Len(cookiesForCurrentPage) > 0 /\ HeaderGet(headers, H_cookie) = <<>>
        THEN HeaderSet(headers, H_Cookie, CookieString(cookiesForCurrentPage))
        ELSE headers
      contentType == HeaderGet(withCookie, H_contentType)
      base == [url |-> url, method |-> method, headers |-> withCookie,
               cookies |-> [i \in 1..Len(cookiesForCurrentPage) |->
                              CookieRecord(cookiesForCurrentPage[i])]]
  IN IF IsSet(requestInfo, "postData")
     THEN base @@ [postData |->
                     [contentType |-> IF contentType # <<>> THEN contentType
                                      ELSE FormType,
                      params |-> ParsePostData(requestInfo.postData, contentType)]]
     ELSE base

\* the listener set once the handler has left the try block only by a return
ExitListeners_OnReturnOnly(ls, i, outcome) ==
  IF Has(outcome, "error") THEN ls ELSE ls \ {i}

\* lines 358-361: finally page.off, whatever the outcome
ExitListeners(ls, i, outcome) == ls \ {i}

\* the tab delivers request r to every subscribed listener
Deliver(invs, ls, r) ==
  [i \in DOMAIN invs |->
     IF i \in ls
     THEN [invs[i] EXCEPT !.requestInfo = CaptureRequest(@, r),
                          !.observed = Append(@, r)]
     ELSE invs[i]]

\* lines 267-301: invocation i starts, subscribes its listener and reaches
\* its first suspension: the reload, or without reload the cookie read
Invoke(i, ps) ==
  /\ inv[i].pc = "idle"
  /\ listeners' = listeners \cup {i}
  /\ inv' = [inv EXCEPT ![i] =
               [@ EXCEPT !.on = @ + 1,
                         !.reload = IsTrue(ps, "reload"),
                         !.pc = IF IsTrue(ps, "reload") THEN "reload" ELSE "cookies",
                         !.requestInfo = IF IsTrue(ps, "reload") THEN <<>>
                                         ELSE SyntheticInfo(tabUrl)]]
  /\ UNCHANGED <<tabUrl, jar, emitted>>
  /\ UNCHANGED htmlVars
  /\ UNCHANGED net

\* the reload of invocation i sends the navigation request r of the page
NavigationRequest(i, r) ==
  /\ inv[i].pc = "reload"
  /\ ~inv[i].navigated
  /\ inv' = [Deliver(inv, listeners, r) EXCEPT ![i].navigated = TRUE]
  /\ UNCHANGED <<tabUrl, jar, listeners, emitted>>
  /\ UNCHANGED htmlVars
  /\ UNCHANGED net

\* the tab sends another request r while some listener is subscribed
TabRequest(r) ==
  /\ listeners # {}
  /\ emitted < MaxRequests
  /\ emitted' = emitted + 1
  /\ inv' = Deliver(inv, listeners, r)
  /\ UNCHANGED <<tabUrl, jar, listeners>>
  /\ UNCHANGED htmlVars
  /\ UNCHANGED net

\* lines 358-361 and the way out: the listener is unsubscribed and the
\* invocation ends with the outcome, a response or an error
Exit(i, outcome) ==
  /\ listeners' = ExitListeners(listeners, i, outcome)
  /\ inv' = [inv EXCEPT ![i] =
               [@ EXCEPT !.pc = IF Has(outcome, "error") THEN "failed" ELSE "returned",
                         !.result = outcome,
                         !.off = IF i \in listeners /\ i \notin listeners'
                                 THEN @ + 1 ELSE @]]
  /\ UNCHANGED <<tabUrl, jar, emitted>>
  /\ UNCHANGED htmlVars
  /\ UNCHANGED net

\* line 292: the reload has reached domcontentloaded
ReloadResolve(i) ==
  /\ inv[i].pc = "reload"
  /\ inv[i].navigated
  /\ inv' = [inv EXCEPT ![i].pc = "cookies"]
  /\ UNCHANGED <<tabUrl, jar, listeners, emitted>>
  /\ UNCHANGED htmlVars
  /\ UNCHANGED net

\* line 292: the reload rejects
ReloadReject(i) ==
  /\ inv[i].pc = "reload"
  /\ Exit(i, [error |-> "reload"])

\* lines 304-357: the cookie read resolves and the handler runs to its end
CookiesResolve(i) ==
  /\ inv[i].pc = "cookies"
  /\ LET response0 == BuildResponse(inv[i].requestInfo, tabUrl, jar)
     IN IF CurlThrows(response0) THEN Exit(i, [error |-> "curl"])
        ELSE Exit(i, response0 @@ [curlCommand |-> GenerateCurlCommand(response0)])

\* line 304: the cookie read rejects
CookiesReject(i) ==
  /\ inv[i].pc = "cookies"
  /\ Exit(i, [error |-> "cookies"])

\* ------------------------------------------------------------------------
\* Race runs: two invocations on one tab, interleaved with the tab's requests
\* ------------------------------------------------------------------------
RaceUrl == <<"h", "t", "t", "p", ":", "/", "/", "e", "x", "a", "m", "p", "l", "e", ".", "c", "o", "m", "/">>

\* the navigation request of a reload of the page at url
MainRequest(url) ==
  Request("document", M_GET, url, <<Header(<<"a", "c", "c", "e", "p", "t">>, <<"t">>)>>, <<>>)

\* what else the tab sends: the document of a sub-frame, a second navigation
\* that posts an empty form, an image
RaceRequests ==
  {Request("document", M_GET, <<"h", "t", "t", "p", ":", "/", "/", "a", ".", "e", "x", "a", "m", "p", "l", "e", ".", "c", "o", "m", "/", "f">>, <<>>, <<>>),
   Request("document", <<"P", "O", "S", "T">>, <<"h", "t", "t", "p", ":", "/", "/", "e", "x", "a", "m", "p", "l", "e", ".", "c", "o", "m", "/", "p">>, <<>>, <<"&">>),
   Request("image", M_GET, <<"h", "t", "t", "p", ":", "/", "/", "e", "x", "a", "m", "p", "l", "e", ".", "c", "o", "m", "/", "i">>,
           <<Header(<<"a", "c", "c", "e", "p", "t">>, <<"i">>)>>, <<>>)}

InitRace ==
  /\ page = <<>>
  /\ pc = "idle"
  /\ params = <<>>
  /\ finalParams = <<>>
  /\ htmlSource = <<>>
  /\ response = NoResponse
  /\ client = NoClient
  /\ tabUrl = RaceUrl
  /\ jar \in {<<>>, <<Cookie(<<"s", "i", "d">>, <<"1">>, <<".", "e", "x", "a", "m", "p", "l", "e", ".", "c", "o", "m">>)>>}
  /\ ReqIdle

NextRace ==
  \/ \E i \in Invocations, ps \in Opt("reload", BOOLEAN) : Invoke(i, ps)
  \/ \E i \in Invocations : NavigationRequest(i, MainRequest(tabUrl))
  \/ \E r \in RaceRequests : TabRequest(r)
  \/ \E i \in Invocations : ReloadResolve(i)
  \/ \E i \in Invocations : ReloadReject(i)
  \/ \E i \in Invocations : CookiesResolve(i)
  \/ \E i \in Invocations : CookiesReject(i)

SpecRace == InitRace /\ [][NextRace]_vars

\* invocation i is between its page.on and its way out
InFlight(i) == inv[i].pc \in {"reload", "cookies"}

\* C13: every invocation subscribes its listener once and unsubscribes it
\* exactly once on every way out (return, reload failure, cookie-read
\* failure, curl-synthesis failure), for any interleaving of invocations on
\* the tab; with no invocation in flight no listener is subscribed; a reload
\* failure ends the invocation with the error, not with a response.
C13_ListenerReleased ==
  /\ \A i \in Invocations :
       /\ inv[i].pc = "idle" => (inv[i].on = 0 /\ inv[i].off = 0 /\ i \notin listeners)
       /\ InFlight(i) => (inv[i].on = 1 /\ inv[i].off = 0 /\ i \in listeners)
       /\ inv[i].pc \in {"returned", "failed"} =>
            (inv[i].on = 1 /\ inv[i].off = 1 /\ i \notin listeners)
       /\ inv[i].pc = "failed" =>
            (Has(inv[i].result, "error") /\ ~Has(inv[i].result, "url"))
       /\ inv[i].pc = "returned" => ~Has(inv[i].result, "error")
  /\ (\A i \in Invocations : ~InFlight(i)) => listeners = {}

\* two invocations that both saw requests of the tab have ended, one by a
\* failed reload and one by a failed curl synthesis
C13_Witness ==
  /\ inv[1].pc = "failed" /\ inv[1].result.error = "reload"
  /\ inv[2].pc = "failed" /\ inv[2].result.error = "curl"
  /\ inv[1].observed # <<>>
  /\ inv[2].observed # <<>>
  /\ listeners = {}

\* C14: without reload the response has the url of the page, method GET, no
\* postData and no header of a real request (at most the Cookie header built
\* from the jar), whatever requests the tab emits while the call is in
\* progress.
C14_NoReloadSynthetic ==
  \A i \in Invocations :
    (inv[i].pc = "returned" /\ ~inv[i].reload) =>
      /\ inv[i].result.url = tabUrl
      /\ inv[i].result.method = M_GET
      /\ ~Has(inv[i].result, "postData")
      /\ \A k \in 1..Len(inv[i].result.headers) :
           inv[i].result.headers[k].key = H_Cookie

\* the document requests among rs, in order
Documents(rs) == SelectSeq(rs, LAMBDA r : r.resourceType = "document")

\* C15: with reload the snapshot used for the response is the first document
\* request the listener observed; later document requests do not replace
\* it, and requests of other kinds are never captured.
C15_FirstDocumentKept ==
  \A i \in Invocations :
    (inv[i].reload /\ Has(inv[i].requestInfo, "url")) =>
      /\ \E k \in 1..Len(inv[i].observed) :
           /\ inv[i].observed[k].resourceType = "document"
           /\ inv[i].requestInfo.url = inv[i].observed[k].url
      /\ inv[i].pc = "returned" =>
           LET first == Documents(inv[i].observed)[1]
           IN /\ inv[i].result.url = first.url
              /\ inv[i].result.method = first.method
              /\ inv[i].requestInfo.headers = first.headers
              /\ inv[i].requestInfo.postData = first.postData

\* ------------------------------------------------------------------------
\* Curl runs: one invocation at a time, over pages of several hosts, jars of
\* several domains and reloads whose navigation request varies
\* ------------------------------------------------------------------------
CurlUrls ==
  {<<"h", "t", "t", "p", ":", "/", "/", "e", "x", "a", "m", "p", "l", "e", ".", "c", "o", "m", "/">>, <<"h", "t", "t", "p", ":", "/", "/", "a", ".", "e", "x", "a", "m", "p", "l", "e", ".", "c", "o", "m", "/", "x">>, <<"h", "t", "t", "p", ":", "/", "/", "n", "o", "t", "e", "x", "a", "m", "p", "l", "e", ".", "c", "o", "m", "/">>}

Jars ==
  {<<>>,
   <<Cookie(<<"s", "i", "d">>, <<"1">>, <<".", "e", "x", "a", "m", "p", "l", "e", ".", "c", "o", "m">>), Cookie(<<"o">>, <<"2">>, <<"o", "t", "h", "e", "r", ".", "o", "r", "g">>),
     Cookie(<<"p">>, <<"3">>, <<"e", "x", "a", "m", "p", "l", "e", ".", "c", "o", "m">>)>>,
   <<Cookie(<<"p">>, <<"3">>, <<"e", "x", "a", "m", "p", "l", "e", ".", "c", "o", "m">>), Cookie(<<"s", "i", "d">>, <<"1">>, <<".", "e", "x", "a", "m", "p", "l", "e", ".", "c", "o", "m">>)>>}

\* the navigation requests a reload of the page at url may send: plain, with
\* a cookie header, and posts of a form, of a form whose first field is
\* named raw, of text, of a body without content type, of an empty form and
\* of no body
NavRequests(url) ==
  {MainRequest(url),
   Request("document", M_GET, url,
           <<Header(H_cookie, <<"s", "=", "1">>), Header(<<"a", "c", "c", "e", "p", "t">>, <<"t">>)>>, <<>>),
   Request("document", <<"P", "O", "S", "T">>, url,
           <<Header(H_contentType, FormType), Header(H_contentLength, <<"9">>)>>,
           <<"a", "+", "b", "=", "1", "%", "2", "6", "2", "&", "c", "=", "d">>),
   Request("document", <<"P", "O", "S", "T">>, url, <<Header(H_contentType, FormType)>>,
           <<"r", "a", "w", "=", "1", "&", "b", "=", "2">>),
   Request("document", <<"P", "O", "S", "T">>, url, <<Header(H_contentType, <<"t", "e", "x", "t", "/", "p", "l", "a", "i", "n">>)>>,
           <<"{", "a", " ", "b", "}">>),
   Request("document", <<"P", "O", "S", "T">>, url, <<>>, <<"k", "=", "v">>),
   Request("document", <<"P", "O", "S", "T">>, url, <<Header(H_contentType, FormType)>>, <<"&">>),
   Request("document", <<"P", "O", "S", "T">>, url, <<>>, <<>>)}

InitCurl ==
  /\ page = <<>>
  /\ pc = "idle"
  /\ params = <<>>
  /\ finalParams = <<>>
  /\ htmlSource = <<>>
  /\ response = NoResponse
  /\ client = NoClient
  /\ tabUrl \in CurlUrls
  /\ jar \in Jars
  /\ ReqIdle

NextCurl ==
  \/ \E ps \in Opt("reload", BOOLEAN) : Invoke(1, ps)
  \/ \E r \in NavRequests(tabUrl) : NavigationRequest(1, r)
  \/ ReloadResolve(1)
  \/ CookiesResolve(1)

SpecCurl == InitCurl /\ [][NextCurl]_vars

\* the response of the invocation of the curl runs, once it has returned
Returned == inv[1].pc = "returned"

Result == inv[1].result

\* domain without its leading dot
BareDomain(domain) == IF StartsWith(domain, <<".">>) THEN Tail(domain) ELSE domain

\* hostname is the domain of the cookie or a subdomain of it
DomainMatches(hostname, cookie) ==
  \/ hostname = BareDomain(cookie.domain)
  \/ EndsWith(hostname, <<".">> \o BareDomain(cookie.domain))

\* C16: a cookie of domain .example.com is included for the hosts
\* a.example.com and example.com, a cookie of domain other.org is excluded
\* for the host example.com, and the cookies returned are exactly the cookies
\* of the jar that match the host of the request, in jar order.
C16_MatchingCookies ==
  /\ MatchesCookie(<<"a", ".", "e", "x", "a", "m", "p", "l", "e", ".", "c", "o", "m">>, Cookie(<<"s", "i", "d">>, <<"1">>, <<".", "e", "x", "a", "m", "p", "l", "e", ".", "c", "o", "m">>))
  /\ MatchesCookie(<<"e", "x", "a", "m", "p", "l", "e", ".", "c", "o", "m">>, Cookie(<<"s", "i", "d">>, <<"1">>, <<".", "e", "x", "a", "m", "p", "l", "e", ".", "c", "o", "m">>))
  /\ ~MatchesCookie(<<"e", "x", "a", "m", "p", "l", "e", ".", "c", "o", "m">>, Cookie(<<"o">>, <<"2">>, <<"o", "t", "h", "e", "r", ".", "o", "r", "g">>))
  /\ Returned =>
       LET matching ==
             SelectSeq(jar, LAMBDA c : DomainMatches(Hostname(Result.url), c))
       IN Result.cookies = [i \in 1..Len(matching) |-> CookieRecord(matching[i])]

\* the number of places of s where t occurs
Occurrences(s, t) == Cardinality({i \in 1..Len(s) : MatchAt(s, i, t)})

\* name=value of the cookies cs, joined by '; '
Pairs(cs) ==
  Join([i \in 1..Len(cs) |-> cs[i].name \o <<"=">> \o cs[i].value], <<";", " ">>)

\* the request captured by the invocation of the curl runs carries a cookie
\* header, in any letter case
RequestHasCookieHeader ==
  /\ Has(inv[1].requestInfo, "headers")
  /\ \E k \in 1..Len(inv[1].requestInfo.headers) :
       ToLowerCase(inv[1].requestInfo.headers[k].key) = <<"c", "o", "o", "k", "i", "e">>

\* C17: when at least one cookie matches and the request headers hold no
\* cookie header, the curl command holds exactly one -H 'Cookie: ...'
\* argument, which lists every matched cookie as name=value joined by '; ' in
\* jar order.
C17_OneCookieArgument ==
  (Returned /\ Len(Result.cookies) > 0 /\ ~RequestHasCookieHeader) =>
    /\ Occurrences(ToLowerCase(Result.curlCommand), <<"-", "h", " ", "'", "c", "o", "o", "k", "i", "e", ":">>) = 1
    /\ Includes(Result.curlCommand,
                <<" ", "-", "H", " ", "'", "C", "o", "o", "k", "i", "e", ":", " ">> \o Pairs(Result.cookies) \o <<"'">>)

\* a reload whose request has headers but no cookie header has returned two
\* matching cookies
C17_Witness ==
  /\ Returned
  /\ inv[1].reload
  /\ Len(inv[1].requestInfo.headers) > 0
  /\ ~RequestHasCookieHeader
  /\ Len(Result.cookies) = 2
  /\ Includes(Result.curlCommand, <<"'", "a", "c", "c", "e", "p", "t", ":", " ", "t", "'", " ", "-", "H", " ", "'", "C", "o", "o", "k", "i", "e", ":", " ", "s", "i", "d", "=", "1", ";", " ", "p", "=", "3", "'">>)

\* C18: the Cookie argument built from the jar is emitted only when there
\* are matched cookies and the request has no cookie header of its own: when
\* the captured request carries a cookie header, in any letter case, the
\* command holds no Cookie argument.
C18_NoJarCookieOverHeader ==
  (Returned /\ Includes(Result.curlCommand, <<"-", "H", " ", "'", "C", "o", "o", "k", "i", "e", ":", " ">>)) =>
    (Len(Result.cookies) > 0 /\ ~RequestHasCookieHeader)

\* the content type of the captured request is absent or form-urlencoded
FormEncoded ==
  LET contentType == HeaderGet(inv[1].requestInfo.headers, <<"c", "o", "n", "t", "e", "n", "t", "-", "t", "y", "p", "e">>)
  IN contentType = <<>> \/ Includes(contentType, <<"a", "p", "p", "l", "i", "c", "a", "t", "i", "o", "n", "/", "x", "-", "w", "w", "w", "-", "f", "o", "r", "m", "-", "u", "r", "l", "e", "n", "c", "o", "d", "e", "d">>)

\* C19: for post data whose content type is absent or form-urlencoded, the
\* -d argument holds every parsed field, in order, as percent-encoded name =
\* percent-encoded value joined by '&', whatever the field names are; the
\* raw body is the -d argument only when the content type is not
\* form-encoded.
C19_FormFieldsEncoded ==
  (Returned /\ Has(Result, "postData")) =>
    LET fields == Result.postData.params
        encoded == Join([i \in 1..Len(fields) |->
                           EncodeURIComponent(fields[i].name) \o <<"=">>
                           \o EncodeURIComponent(fields[i].value)], <<"&">>)
    IN IF FormEncoded
       THEN EndsWith(Result.curlCommand, <<" ", "-", "d", " ", "'">> \o encoded \o <<"'">>)
       ELSE EndsWith(Result.curlCommand,
                     <<" ", "-", "d", " ", "'">> \o inv[1].requestInfo.postData \o <<"'">>)

\* C20: the curl command holds -X <METHOD> exactly when the method is not
\* GET, directly after curl and before the quoted URL; a GET request has no
\* -X argument.
C20_MethodArgument ==
  Returned =>
    IF Result.method # <<"G", "E", "T">>
    THEN /\ StartsWith(Result.curlCommand,
                       <<"c", "u", "r", "l", " ", "-", "X", " ">> \o Result.method \o <<" ", "'">> \o Result.url \o <<"'", " ">>)
            \/ Result.curlCommand
                 = <<"c", "u", "r", "l", " ", "-", "X", " ">> \o Result.method \o <<" ", "'">> \o Result.url \o <<"'">>
         /\ Occurrences(Result.curlCommand, <<"-", "X">>) = 1
    ELSE /\ StartsWith(Result.curlCommand, <<"c", "u", "r", "l", " ", "'">> \o Result.url \o <<"'">>)
         /\ ~Includes(Result.curlCommand, <<"-", "X">>)

\* a posted form has returned with the method argument before the URL
C20_Witness ==
  /\ Returned
  /\ Has(Result, "postData")
  /\ StartsWith(Result.curlCommand, <<"c", "u", "r", "l", " ", "-", "X", " ", "P", "O", "S", "T", " ", "'", "h", "t", "t", "p", ":", "/", "/", "e", "x", "a", "m", "p", "l", "e", ".", "c", "o", "m", "/", "'", " ", "-", "H", " ">>)

\* ------------------------------------------------------------------------
\* browser_network_requests (lines 219-252) and the tab's record of requests
\* ------------------------------------------------------------------------
\* String.prototype.toUpperCase (the letters a-z)
ToUpperCase(s) ==
  LET upper == <<"A", "B", "C", "D", "E", "F", "G", "H", "I", "J", "K", "L", "M",
               "N", "O", "P", "Q", "R", "S", "T", "U", "V", "W", "X", "Y", "Z">>
      lower == <<"a", "b", "c", "d", "e", "f", "g", "h", "i", "j", "k", "l", "m",
               "n", "o", "p", "q", "r", "s", "t", "u", "v", "w", "x", "y", "z">>
  IN [i \in 1..Len(s) |->
        IF \E k \in 1..26 : lower[k] = s[i]
        THEN upper[CHOOSE k \in 1..26 : lower[k] = s[i]]
        ELSE s[i]]

\* renderRequest without the upper-casing of the method
RenderRequest_MethodAsIs(request, resp) ==
  LET digit == <<"0", "1", "2", "3", "4", "5", "6", "7", "8", "9">>
      n == resp.status
      status == (IF n >= 100 THEN <<digit[(n \div 100) + 1]>> ELSE <<>>)
                \o (IF n >= 10 THEN <<digit[((n \div 10) % 10) + 1]>> ELSE <<>>)
                \o <<digit[(n % 10) + 1]>>
      first == <<"[">> \o request.method \o <<"]", " ">> \o request.url
  IN IF Has(resp, "status")
     THEN Join(<<first, <<"=", ">", " ", "[">> \o status \o <<"]", " ">> \o resp.statusText>>, <<" ">>)
     ELSE first

\* lines 246-252; resp <<>> stands for null, and status is written in
\* decimal (a status has at most three digits)
RenderRequest(request, resp) ==
  LET digit == <<"0", "1", "2", "3", "4", "5", "6", "7", "8", "9">>
      n == resp.status
      status == (IF n >= 100 THEN <<digit[(n \div 100) + 1]>> ELSE <<>>)
                \o (IF n >= 10 THEN <<digit[((n \div 10) % 10) + 1]>> ELSE <<>>)
                \o <<digit[(n % 10) + 1]>>
      first == <<"[">> \o ToUpperCase(request.method) \o <<"]", " ">> \o request.url
  IN IF Has(resp, "status")
     THEN Join(<<first, <<"=", ">", " ", "[">> \o status \o <<"]", " ">> \o resp.statusText>>, <<" ">>)
     ELSE first

\* the tab records a request it sends: a new key of its map of requests,
\* without a response; captured numbers the requests in the order of capture
RecordRequest(request) ==
  /\ Len(net.requests) < MaxRecorded
  /\ net' = [requests |-> Append(net.requests,
                                 [request |-> request, response |-> <<>>,
                                  captured |-> Len(net.requests) + 1]),
             state |-> "idle", log |-> <<>>]
  /\ UNCHANGED <<tabUrl, jar, listeners, inv, emitted>>
  /\ UNCHANGED htmlVars

\* the tab records the response of the k-th request of its map: the value
\* of an existing key is set, which keeps the key's place
RecordResponse(k, resp) ==
  /\ k \in 1..Len(net.requests)
  /\ ~Has(net.requests[k].response, "status")
  /\ net' = [requests |-> [net.requests EXCEPT ![k].response = resp],
             state |-> "idle", log |-> <<>>]
  /\ UNCHANGED <<tabUrl, jar, listeners, inv, emitted>>
  /\ UNCHANGED htmlVars

\* lines 230-243: the handler renders the entries of the map and joins them
ListRequests ==
  /\ net.state = "idle"
  /\ net' = [net EXCEPT
               !.state = "done",
               !.log = Join([i \in 1..Len(net.requests) |->
                               RenderRequest(net.requests[i].request,
                                             net.requests[i].response)],
                            <<"\n">>)]
  /\ UNCHANGED <<tabUrl, jar, listeners, inv, emitted>>
  /\ UNCHANGED htmlVars

InitNetwork ==
  /\ page = <<>>
  /\ pc = "idle"
  /\ params = <<>>
  /\ finalParams = <<>>
  /\ htmlSource = <<>>
  /\ response = NoResponse
  /\ client = NoClient
  /\ tabUrl = <<>>
  /\ jar = <<>>
  /\ ReqIdle

NextNetwork ==
  \/ \E method \in {<<"G", "E", "T">>, <<"p", "o", "s", "t">>}, url \in {<<"h", "t", "t", "p", ":", "/", "/", "e", ".", "c", "o", "m", "/">>, <<"h", "t", "t", "p", ":", "/", "/", "e", ".", "c", "o", "m", "/", "j">>} :
       RecordRequest([method |-> method, url |-> url])
  \/ \E k \in 1..MaxRecorded,
        r \in {[status |-> 200, statusText |-> <<"O", "K">>],
               [status |-> 404, statusText |-> <<"N", "o", "t", " ", "F", "o", "u", "n", "d">>],
               [status |-> 204, statusText |-> <<>>]} :
       RecordResponse(k, r)
  \/ ListRequests

SpecNetwork == InitNetwork /\ [][NextNetwork]_vars

\* the line the claim states for an entry of the map, with the methods and
\* the statuses of the runs written out
StatedLine(e) ==
  LET method == IF e.request.method = <<"p", "o", "s", "t">> THEN <<"P", "O", "S", "T">> ELSE e.request.method
      status == IF e.response.status = 200 THEN <<"2", "0", "0">>
                ELSE IF e.response.status = 404 THEN <<"4", "0", "4">> ELSE <<"2", "0", "4">>
  IN <<"[">> \o method \o <<"]", " ">> \o e.request.url
     \o (IF Has(e.response, "status")
         THEN <<" ", "=", ">", " ", "[">> \o status \o <<"]", " ">> \o e.response.statusText
         ELSE <<>>)

\* C21: browser_network_requests returns one line per recorded request, in
\* the order of capture, each '[METHOD] url => [status] statusText' with the
\* method in upper case and without the '=> ...' part for a request that has
\* no response yet; the lines are joined by newlines.
C21_RequestLog ==
  net.state = "done" =>
    net.log = Join([i \in 1..Len(net.requests) |->
                      StatedLine(CHOOSE e \in {net.requests[k] : k \in 1..Len(net.requests)} :
                                   e.captured = i)],
                   <<"\n">>)

\* three requests are listed, the second one of lower-case method and
\* without a response, the third one answered before the first
C21_Witness ==
  /\ net.state = "done"
  /\ net.log = <<"[", "G", "E", "T", "]", " ", "h", "t", "t", "p", ":", "/", "/", "e", ".", "c", "o", "m", "/", " ", "=", ">", " ", "[", "4", "0", "4", "]", " ", "N", "o", "t", " ", "F", "o", "u", "n", "d">> \o <<"\n">>
               \o <<"[", "P", "O", "S", "T", "]", " ", "h", "t", "t", "p", ":", "/", "/", "e", ".", "c", "o", "m", "/", "j">> \o <<"\n">>
               \o <<"[", "G", "E", "T", "]", " ", "h", "t", "t", "p", ":", "/", "/", "e", ".", "c", "o", "m", "/", "j", " ", "=", ">", " ", "[", "2", "0", "4", "]", " ">>

\* ------------------------------------------------------------------------
\* Region selection (checked on the runs of Spec)
\* ------------------------------------------------------------------------
\* the children of the document element of tag t, in a page the tag
\* exclusion has left
TopLevel(t) == SelectSeq(page[1].children, LAMBDA n : n.kind = "element" /\ n.tag = t)

\* the region the claim states for the effective options, read on page, the
\* document after the tag exclusion
StatedRegion ==
  IF IsSet(finalParams, "selector")
  THEN JoinOuter(QueryAll(page, finalParams.selector))
  ELSE IF IsTrue(finalParams, "headOnly") THEN OuterHTML(TopLevel(Tag_head)[1])
  ELSE IF IsTrue(finalParams, "bodyOnly") THEN OuterHTML(TopLevel(Tag_body)[1])
  ELSE Content(page)

\* C22: region selection takes the first of selector, headOnly, bodyOnly
\* that is set: with a selector the text is the outer markup of the matching
\* elements joined by newlines, whatever headOnly and bodyOnly are; else with
\* headOnly it is the <head> markup, whatever bodyOnly is; else with bodyOnly
\* the <body> markup; otherwise the serialization of the whole document.  The
\* selection reads the document after the tag exclusion, and the later
\* stages filter what it selected.
C22_RegionPrecedence ==
  (pc = "done" /\ RegionFailure = <<>>) =>
    htmlSource = FilterText(StatedRegion, finalParams)

\* a call with a matching selector, headOnly and bodyOnly, and no later
\* stage: the paragraphs alone are returned
C22_Witness ==
  /\ pc = "done"
  /\ IsSet(finalParams, "selector")
  /\ IsTrue(finalParams, "headOnly")
  /\ IsTrue(finalParams, "bodyOnly")
  /\ IsTrue(finalParams, "includeComments")
  /\ ~IsTrue(finalParams, "compress")
  /\ ~IsTrue(finalParams, "prettyPrint")
  /\ Len(QueryAll(page, finalParams.selector)) = 2
  /\ htmlSource = OuterHTML(Para) \o <<"\n">> \o OuterHTML(Para)

\* ------------------------------------------------------------------------
\* Pretty-print runs: the stage applied to every short text
\* ------------------------------------------------------------------------
InitPretty ==
  /\ page = <<>>
  /\ pc = "text"
  /\ params = [prettyPrint |-> TRUE]
  /\ finalParams = [prettyPrint |-> TRUE]
  /\ htmlSource \in Texts
  /\ response = NoResponse
  /\ client = NoClient
  /\ tabUrl = <<>>
  /\ jar = <<>>
  /\ ReqIdle

\* lines 138-144 applied to the text at hand
ApplyPrettyPrint ==
  /\ pc = "text"
  /\ htmlSource' = IF PrettyPrintEnabled(finalParams) THEN PrettyPrint(htmlSource)
                   ELSE htmlSource
  /\ pc' = "pretty"
  /\ UNCHANGED <<page, params, finalParams, response, client>>
  /\ UNCHANGED reqVars

NextPretty == ApplyPrettyPrint

SpecPretty == InitPretty /\ [][NextPretty]_vars

\* a line of s, the lines being separated by newlines, starts or ends with
\* whitespace
LineEdgeWhitespace(s) ==
  \E i \in 1..Len(s) :
    /\ IsWs(s[i])
    /\ s[i] # "\n"
    /\ \/ i = 1
       \/ s[i - 1] = "\n"
       \/ i = Len(s)
       \/ s[i + 1] = "\n"

\* C23: with prettyPrint true and compress not true, for every input text
\* the filtered text holds no '>' immediately followed by '<', and none of
\* its lines starts or ends with whitespace.
C23_PrettyPrinted ==
  (pc = "pretty" /\ IsTrue(finalParams, "prettyPrint")
   /\ ~IsTrue(finalParams, "compress")) =>
    /\ ~Includes(htmlSource, <<">", "<">>)
    /\ ~LineEdgeWhitespace(htmlSource)

\* C24: a cookie is returned only if the hostname of the request equals the
\* domain of the cookie, its leading dot ignored, or ends with '.' followed
\* by that domain; a cookie of example.com is never returned for the host
\* notexample.com.
C24_OnlyDomainCookies ==
  /\ (Returned /\ Hostname(Result.url) = <<"n", "o", "t", "e", "x", "a", "m", "p", "l", "e", ".", "c", "o", "m">>) =>
       \A k \in 1..Len(Result.cookies) :
         BareDomain(Result.cookies[k].domain) # <<"e", "x", "a", "m", "p", "l", "e", ".", "c", "o", "m">>
  /\ Returned =>
       \A k \in 1..Len(Result.cookies) :
         \/ Hostname(Result.url) = BareDomain(Result.cookies[k].domain)
         \/ EndsWith(Hostname(Result.url),
                     <<".">> \o BareDomain(Result.cookies[k].domain))

\* the invocation of the curl runs has ended, by a response or by an error
Ended == inv[1].pc \in {"returned", "failed"}

\* C25: post data never makes browser_get_request_info fail: for every
\* non-empty body and every content type, a body that decodes to no form
\* field included, a response with a curlCommand is returned; a content type
\* that is not form-encoded yields the single field named raw whose value is
\* the body.
C25_PostDataNeverFails ==
  (Ended /\ IsSet(inv[1].requestInfo, "postData")) =>
    /\ Returned
    /\ Has(Result, "curlCommand")
    /\ ~FormEncoded =>
         Result.postData.params
           = <<[name |-> <<"r", "a", "w">>, value |-> inv[1].requestInfo.postData]>>

\* C26: whenever hasMore is true, actualLength is at least 1, so that the
\* next offset of a paging client, actualOffset + actualLength, lies beyond
\* the offset of the call and the client reaches hasMore = false after
\* finitely many calls, for every maxLength the tool accepts, 0 included.
C26_PagingProgress ==
  (WindowCall /\ response.hasMore) =>
    /\ response.actualLength >= 1
    /\ response.actualOffset + response.actualLength > CallerOffset(finalParams)

====
